---- MODULE Spec2Model ----
(***************************************************************************)
(* PyShellX: an interactive command interpreter (src/PyShellX.py).         *)
(*                                                                         *)
(* Text is modelled as a sequence of chunks: a token of the input line is  *)
(* one chunk, the separators and fixed message parts the code inserts are  *)
(* chunks of their own, so that " ".join(args) + "\n" and the f-string     *)
(* diagnostics are built the way the code builds them.                     *)
(* An optional value (None or a string) is <<>> or <<s>>.                  *)
(* A path is a sequence of components; <<>> is the root directory.         *)
(***************************************************************************)
EXTENDS Integers, Sequences, FiniteSets, TLC

VARIABLES
    status,         \* "running", "exited" (sys.exit), "crashed" (uncaught exception)
    exit_code,      \* process exit status once the session has ended
    cwd,            \* process working directory (os.getcwd), a path
    fs,             \* regular files: path -> content (chunks), for the paths that exist
    HOME,           \* os.environ.get("HOME"): None or Some(string)
    user_input,     \* what input() delivered last
    command_parts,  \* main's command_parts after handle_redirection
    redir,          \* what handle_redirection returned last
    out,            \* chunks written to the session's standard output by the last line
    err,            \* chunks written to the session's standard error by the last line
    event,          \* what the last loop iteration did
    handles,        \* redirection files opened by the last line and still open
    argv,           \* the argument vector the last line gave subprocess.run, or <<>>
    proc,           \* what the spawned process did, NoProc when none was spawned
    cwd_before,     \* the working directory when the last line was read
    pwd_log,        \* what pwd printed to standard output since the last cd line
    nlines,         \* number of loop iterations so far
    hist            \* the echo lines read so far (kept by SpecEcho only)

vars == <<status, exit_code, cwd, fs, HOME, user_input, command_parts, redir,
          out, err, event, handles, argv, proc, cwd_before, pwd_log,
          nlines, hist>>

----------------------------------------------------------------------------
\* Bounds

MaxLines == 2
MaxTokens == 4
MaxEcho == 3

----------------------------------------------------------------------------
\* Values

None == <<>>
Some(s) == <<s>>

\* Python truthiness of an optional string: None and "" are both false.
Truthy(o) == o # None /\ o[1] # ""

NL == "\n"

BUILTIN_COMMANDS == {"echo", "exit", "type", "pwd", "cd"}

OutOverwrite == {">", "1>"}
OutAppend == {">>", "1>>"}
ErrOverwrite == {"2>"}
ErrAppend == {"2>>"}
Directives == OutOverwrite \cup OutAppend \cup ErrOverwrite \cup ErrAppend

SyntaxErrorOutput == <<"Syntax error: Missing file for output redirection", NL>>
SyntaxErrorError == <<"Syntax error: Missing file for error redirection", NL>>

----------------------------------------------------------------------------
\* handle_redirection: the while loop over command_parts, i being 1-based here.

NoRedirection ==
    [clean_command |-> <<>>, output_file |-> None, append_output |-> FALSE,
     error_file |-> None, append_error |-> FALSE, stderr |-> <<>>]

\* Mutant: the file name is not skipped and is read again as an ordinary token.
set_output_keeps_file(r, file, append) ==
    [r EXCEPT !.output_file = Some(file), !.append_output = append,
              !.clean_command = Append(@, file)]

\* Mutant: the first directive of the output stream wins.
set_output_first_wins(r, file, append) ==
    IF r.output_file = None
    THEN [r EXCEPT !.output_file = Some(file), !.append_output = append]
    ELSE r

\* Lines 88-89, 95-96: a directive of the output stream followed by a file name.
set_output(r, file, append) ==
    [r EXCEPT !.output_file = Some(file), !.append_output = append]

\* Lines 102-103, 109-110: a directive of the error stream followed by a file name.
\* Mutant: the first error directive wins.
set_error_first_wins(r, file, append) ==
    IF r.error_file = None
    THEN [r EXCEPT !.error_file = Some(file), !.append_error = append]
    ELSE r

set_error(r, file, append) ==
    [r EXCEPT !.error_file = Some(file), !.append_error = append]

\* Mutant: a directive with nothing after it also forgets the targets set so far.
missing_file_resets_targets(r, message) ==
    [r EXCEPT !.stderr = @ \o message, !.output_file = None, !.error_file = None]

\* Lines 92, 99, 106, 113: a directive with nothing after it.
missing_file(r, message) == [r EXCEPT !.stderr = @ \o message]

\* Line 115: any other token.
keep_token(r, token) == [r EXCEPT !.clean_command = Append(@, token)]

RECURSIVE RedirectionLoop(_, _, _)
RedirectionLoop(parts, i, r) ==
    IF i > Len(parts) THEN r
    ELSE IF parts[i] \in OutOverwrite THEN
        IF i + 1 <= Len(parts)
        THEN RedirectionLoop(parts, i + 2, set_output(r, parts[i + 1], FALSE))
        ELSE RedirectionLoop(parts, i + 1, missing_file(r, SyntaxErrorOutput))
    ELSE IF parts[i] \in OutAppend THEN
        IF i + 1 <= Len(parts)
        THEN RedirectionLoop(parts, i + 2, set_output(r, parts[i + 1], TRUE))
        ELSE RedirectionLoop(parts, i + 1, missing_file(r, SyntaxErrorOutput))
    ELSE IF parts[i] \in ErrOverwrite THEN
        IF i + 1 <= Len(parts)
        THEN RedirectionLoop(parts, i + 2, set_error(r, parts[i + 1], FALSE))
        ELSE RedirectionLoop(parts, i + 1, missing_file(r, SyntaxErrorError))
    ELSE IF parts[i] \in ErrAppend THEN
        IF i + 1 <= Len(parts)
        THEN RedirectionLoop(parts, i + 2, set_error(r, parts[i + 1], TRUE))
        ELSE RedirectionLoop(parts, i + 1, missing_file(r, SyntaxErrorError))
    ELSE RedirectionLoop(parts, i + 1, keep_token(r, parts[i]))

handle_redirection(parts) == RedirectionLoop(parts, 1, NoRedirection)

----------------------------------------------------------------------------
\* The environment: paths, the directory tree, the search path.

\* How the path strings of the model split into components.
PathTable ==
    [s \in {"/", "/d", "/k", "/k/x", "/nope", "/nodir/x", "/d/f", "/bin/ls", "./tool",
            ""} |->
        CASE s = "/"        -> [abs |-> TRUE, comps |-> <<>>]
          [] s = "/d"       -> [abs |-> TRUE, comps |-> <<"d">>]
          [] s = "/k"       -> [abs |-> TRUE, comps |-> <<"k">>]
          [] s = "/k/x"     -> [abs |-> TRUE, comps |-> <<"k", "x">>]
          [] s = "/nope"    -> [abs |-> TRUE, comps |-> <<"nope">>]
          [] s = "/nodir/x" -> [abs |-> TRUE, comps |-> <<"nodir", "x">>]
          [] s = "/d/f"     -> [abs |-> TRUE, comps |-> <<"d", "f">>]
          [] s = "/bin/ls"  -> [abs |-> TRUE, comps |-> <<"bin", "ls">>]
          [] s = "./tool"   -> [abs |-> FALSE, comps |-> <<".", "tool">>]
          [] s = ""         -> [abs |-> FALSE, comps |-> <<>>]]

PathOf(s) ==
    IF s \in DOMAIN PathTable THEN PathTable[s] ELSE [abs |-> FALSE, comps |-> <<s>>]

\* os.path.normpath on components: "." is dropped, ".." removes the component
\* before it and is dropped at the root.
RECURSIVE NormLoop(_, _)
NormLoop(acc, rest) ==
    IF rest = <<>> THEN acc
    ELSE IF Head(rest) = "." THEN NormLoop(acc, Tail(rest))
    ELSE IF Head(rest) = ".." THEN
        NormLoop(IF acc = <<>> THEN acc ELSE SubSeq(acc, 1, Len(acc) - 1), Tail(rest))
    ELSE NormLoop(Append(acc, Head(rest)), Tail(rest))

\* os.path.abspath(s) in working directory dir.
abspath(dir, s) ==
    NormLoop(<<>>, IF PathOf(s).abs THEN PathOf(s).comps ELSE dir \o PathOf(s).comps)

\* os.getcwd() as text.
RECURSIVE PathStr(_)
PathStr(p) ==
    IF p = <<>> THEN <<"/">>
    ELSE IF Len(p) = 1 THEN <<"/", p[1]>>
    ELSE PathStr(SubSeq(p, 1, Len(p) - 1)) \o <<"/", p[Len(p)]>>

\* Directories of the environment; the user may not search LockedDirs.
Dirs == {<<>>, <<"d">>, <<"k">>, <<"bin">>}
LockedDirs == {<<"k">>}

OK == "ok"

\* The errno of walking to the directory p, or OK.
WalkDir(files, p) ==
    LET bad == {k \in 1..Len(p) : SubSeq(p, 1, k) \notin (Dirs \ LockedDirs)} IN
    IF bad = {} THEN OK
    ELSE LET k == CHOOSE m \in bad : \A n \in bad : m <= n
             q == SubSeq(p, 1, k) IN
         IF q \in LockedDirs THEN "PermissionError"
         ELSE IF q \in DOMAIN files THEN "NotADirectoryError"
         ELSE "FileNotFoundError"

\* os.chdir(s) from dir: the exception it raises, or OK.
chdir_result(files, dir, s) ==
    IF s = "" THEN "FileNotFoundError" ELSE WalkDir(files, abspath(dir, s))

\* open(s, "w" or "a") from dir: the exception it raises, or OK.
open_result(files, dir, s) ==
    LET p == abspath(dir, s) IN
    IF s = "" THEN "FileNotFoundError"
    ELSE IF p \in Dirs THEN
        IF WalkDir(files, p) = OK THEN "IsADirectoryError" ELSE WalkDir(files, p)
    ELSE WalkDir(files, SubSeq(p, 1, Len(p) - 1))

\* Mutant: the file is truncated whatever the mode.
write_file_always_truncates(files, dir, s, append, data) ==
    [q \in DOMAIN files \cup {abspath(dir, s)} |->
        IF q = abspath(dir, s) THEN data ELSE files[q]]

\* The files after open(s, mode) succeeded and data was written through it.
write_file(files, dir, s, append, data) ==
    LET p == abspath(dir, s)
        old == IF append /\ p \in DOMAIN files THEN files[p] ELSE <<>> IN
    [q \in DOMAIN files \cup {p} |-> IF q = p THEN old \o data ELSE files[q]]

\* The executable files of the environment: ls in /bin, the one directory of
\* the search path, and tool in /d.
ExecFiles == {<<"bin", "ls">>, <<"d", "tool">>}
SearchPath == <<<<"bin">>>>

\* The string names a file through a directory part.
HasSlash(s) == s \in DOMAIN PathTable /\ s # ""

\* The first directory of the search path holding an executable called name.
RECURSIVE SearchFrom(_, _)
SearchFrom(name, k) ==
    IF k > Len(SearchPath) THEN None
    ELSE IF Append(SearchPath[k], name) \in ExecFiles
    THEN Some(Append(SearchPath[k], name))
    ELSE SearchFrom(name, k + 1)

\* The path string of a file of the search path.
SearchPathStr(p) == IF p = <<"bin", "ls">> THEN "/bin/ls" ELSE "?"

\* shutil.which: a name with a directory part is tested as it is, any other
\* name is looked up in the search path.
find_executable(command) ==
    IF HasSlash(command)
    THEN IF abspath(cwd, command) \in ExecFiles THEN Some(command) ELSE None
    ELSE IF command # "" /\ SearchFrom(command, 1) # None
    THEN Some(SearchPathStr(SearchFrom(command, 1)[1]))
    ELSE None

\* os.path.isfile(s) and os.access(s, os.X_OK)
is_executable_file(s) == s # "" /\ abspath(cwd, s) \in ExecFiles

\* The lookup subprocess.run makes for the first element of the argument
\* vector: a name with a directory part is executed as it is, any other name
\* is searched in the search path.
exec_lookup(name) ==
    IF HasSlash(name)
    THEN IF abspath(cwd, name) \in ExecFiles THEN Some(abspath(cwd, name)) ELSE None
    ELSE IF name # "" THEN SearchFrom(name, 1) ELSE None

----------------------------------------------------------------------------
\* The outcome of one iteration of main's loop, as a record of the new values.

NoExit == -1

\* No process was spawned.
NoProc == [kind |-> "none", stdout |-> <<>>, stderr |-> <<>>, file |-> None]

\* The iteration went on to the next prompt, nothing else changed.
Continue(ev) ==
    [status |-> "running", exit_code |-> NoExit, cwd |-> cwd, fs |-> fs,
     out |-> <<>>, err |-> <<>>, handles |-> {}, argv |-> <<>>, proc |-> NoProc,
     event |-> ev]

\* An exception no handler of main catches: traceback, exit status 1.
Uncaught(o, exc) ==
    [o EXCEPT !.status = "crashed", !.exit_code = 1,
              !.err = @ \o <<"Traceback: ", exc, NL>>]

\* Mutant: the words read before the unterminated quote are returned.
parse_input_keeps_words(ui) ==
    IF ui.kind = "badquote"
    THEN [tokens |-> <<"echo">>, stderr |-> <<"Parsing error: ", "No closing quotation", NL>>]
    ELSE [tokens |-> ui.toks, stderr |-> <<>>]

\* parse_input: shlex.split either raises ValueError or yields the tokens.
parse_input(ui) ==
    IF ui.kind = "badquote"
    THEN [tokens |-> <<>>, stderr |-> <<"Parsing error: ", "No closing quotation", NL>>]
    ELSE [tokens |-> ui.toks, stderr |-> <<>>]

\* " ".join(words)
RECURSIVE Join(_)
Join(words) ==
    IF words = <<>> THEN <<>>
    ELSE IF Len(words) = 1 THEN <<words[1]>>
    ELSE <<words[1], " ">> \o Join(Tail(words))

\* The echo and pwd branches: output + "\n" to the output file or to stdout.
write_output(o, r, output) ==
    IF Truthy(r.output_file) THEN
        LET res == open_result(fs, cwd, r.output_file[1]) IN
        IF res = OK
        THEN [o EXCEPT !.fs = write_file(fs, cwd, r.output_file[1],
                                         r.append_output, output \o <<NL>>)]
        ELSE Uncaught(o, res)
    ELSE [o EXCEPT !.out = @ \o output \o <<NL>>]

\* The type branch.
type_builtin(o, parts) ==
    IF Len(parts) < 2 THEN Uncaught(o, "IndexError")
    ELSE LET cmd_to_check == parts[2] IN
         IF cmd_to_check \in BUILTIN_COMMANDS
         THEN [o EXCEPT !.out = @ \o <<cmd_to_check, " is a shell builtin", NL>>]
         ELSE IF find_executable(cmd_to_check) # None
         THEN [o EXCEPT !.out = @ \o <<cmd_to_check, " is ",
                                       find_executable(cmd_to_check)[1], NL>>]
         ELSE [o EXCEPT !.err = @ \o <<cmd_to_check, ": not found", NL>>]

\* os.environ.get("HOME", "/")
home_path == IF HOME = None THEN "/" ELSE HOME[1]

CdReason(exc) ==
    CASE exc = "FileNotFoundError" -> ": No such file or directory"
      [] exc = "NotADirectoryError" -> ": Not a directory"
      [] exc = "PermissionError" -> ": Permission denied"

\* Mutant: the working directory is set without asking whether it can be entered.
change_directory_unchecked(o, arg) ==
    [o EXCEPT !.cwd = abspath(cwd, IF arg = "~" THEN home_path ELSE arg)]

change_directory(o, arg) ==
    LET path == IF arg = "~" THEN home_path ELSE arg
        res == WalkDir(fs, abspath(cwd, path)) IN
    IF res = OK THEN [o EXCEPT !.cwd = abspath(cwd, path)]
    ELSE IF res \in {"FileNotFoundError", "NotADirectoryError", "PermissionError"}
    THEN [o EXCEPT !.err = @ \o <<"cd: ", path, CdReason(res), NL>>]
    ELSE Uncaught(o, res)

\* The cd branch.
cd_builtin(o, parts) ==
    IF Len(parts) > 1 THEN change_directory(o, parts[2])
    ELSE LET res == chdir_result(fs, cwd, home_path) IN
         IF res = OK THEN [o EXCEPT !.cwd = abspath(cwd, home_path)]
         ELSE Uncaught(o, res)

----------------------------------------------------------------------------
\* External commands.

\* What the process-spawn primitive can do with an argument vector: run the
\* program to completion, or fail to launch it.
ProcResults ==
    {[kind |-> OK, stdout |-> <<"listing", NL>>, stderr |-> <<"ls: warning", NL>>,
      file |-> None],
     [kind |-> "FileNotFoundError", stdout |-> <<>>, stderr |-> <<>>, file |-> None],
     [kind |-> "PermissionError", stdout |-> <<>>, stderr |-> <<>>, file |-> None],
     [kind |-> "OSError", stdout |-> <<>>, stderr |-> <<>>, file |-> None]}

\* The except clauses of run_external_command.
RunDiagnostic(parts, exc) ==
    IF exc = "FileNotFoundError" THEN <<parts[1], ": command not found", NL>>
    ELSE IF exc = "PermissionError" THEN <<parts[1], ": permission denied", NL>>
    ELSE <<"Error running command: ", exc, NL>>

\* The launch found no file to execute.
LaunchNotFound ==
    [kind |-> "FileNotFoundError", stdout |-> <<>>, stderr |-> <<>>, file |-> None]

\* chosen is what the process does when the launch finds its file; file is
\* the file the launch went for.
run_external_command(o, parts, r, chosen) ==
    LET pr == IF exec_lookup(parts[1]) # None
              THEN [chosen EXCEPT !.file = exec_lookup(parts[1])]
              ELSE LaunchNotFound
        toFile == Truthy(r.output_file)
        errToFile == Truthy(r.error_file)
        res1 == IF toFile THEN open_result(fs, cwd, r.output_file[1]) ELSE OK
        \* open() has created or truncated the output file
        fs1 == IF toFile /\ res1 = OK
               THEN write_file(fs, cwd, r.output_file[1], r.append_output, <<>>)
               ELSE fs
        h1 == IF toFile /\ res1 = OK THEN {abspath(cwd, r.output_file[1])} ELSE {}
        res2 == IF errToFile THEN open_result(fs1, cwd, r.error_file[1]) ELSE OK
        fs2 == IF errToFile /\ res2 = OK
               THEN write_file(fs1, cwd, r.error_file[1], r.append_error, <<>>)
               ELSE fs1
        h2 == IF errToFile /\ res2 = OK THEN h1 \cup {abspath(cwd, r.error_file[1])} ELSE h1
        \* the child writes through the handles it was given
        fs3 == IF toFile THEN write_file(fs2, cwd, r.output_file[1], TRUE, pr.stdout) ELSE fs2
        fs4 == IF errToFile THEN write_file(fs3, cwd, r.error_file[1], TRUE, pr.stderr) ELSE fs3
    IN
    IF res1 # OK THEN [o EXCEPT !.err = @ \o RunDiagnostic(parts, res1)]
    ELSE IF res2 # OK
    THEN [o EXCEPT !.fs = fs1, !.handles = h1, !.err = @ \o RunDiagnostic(parts, res2)]
    ELSE IF pr.kind # OK
    THEN [o EXCEPT !.fs = fs2, !.handles = h2, !.argv = parts, !.proc = pr,
                   !.err = @ \o RunDiagnostic(parts, pr.kind)]
    ELSE [o EXCEPT !.fs = fs4, !.argv = parts, !.proc = pr,
                   !.out = IF toFile THEN @ ELSE @ \o pr.stdout,
                   !.err = IF errToFile THEN @ ELSE @ \o pr.stderr]

\* Mutant: the redirection targets are opened before the name is resolved.
execute_quoted_executable_opens_first(o, parts, r, pr) ==
    IF is_executable_file(parts[1]) \/ find_executable(parts[1]) = None
    THEN run_external_command(o, parts, r, pr)
    ELSE run_external_command(o, [parts EXCEPT ![1] = find_executable(parts[1])[1]], r, pr)

\* Mutant: the interpreter enters the directory of the program it runs.
execute_quoted_executable_in_place(o, parts, r, pr) ==
    IF is_executable_file(parts[1]) \/ find_executable(parts[1]) # None
    THEN run_external_command([o EXCEPT !.cwd = <<"bin">>],
                              [parts EXCEPT ![1] = "/bin/ls"], r, pr)
    ELSE [o EXCEPT !.err = @ \o <<parts[1], ": command not found", NL>>]

execute_quoted_executable(o, parts, r, pr) ==
    LET executable_path == parts[1]
        resolved_executable == find_executable(parts[1]) IN
    IF is_executable_file(executable_path) THEN run_external_command(o, parts, r, pr)
    ELSE IF resolved_executable # None
    THEN run_external_command(o, [parts EXCEPT ![1] = resolved_executable[1]], r, pr)
    ELSE [o EXCEPT !.err = @ \o <<executable_path, ": command not found", NL>>]

----------------------------------------------------------------------------
\* main: one iteration of the while loop for a line that input() returned.

\* Mutant: exit with any one argument ends the session.
is_exit_any_argument(parts) == parts[1] = "exit" /\ Len(parts) = 2

\* The test of line 160.
is_exit(parts) == parts[1] = "exit" /\ Len(parts) = 2 /\ parts[2] = "0"

\* Mutant: type sends a built-in's report where the output directive says.
dispatch_redirects_type(o, parts, r, pr) ==
    IF is_exit(parts)
    THEN [o EXCEPT !.status = "exited", !.exit_code = 0, !.event = "exit"]
    ELSE IF parts[1] = "echo"
    THEN write_output([o EXCEPT !.event = "echo"], r, Join(Tail(parts)))
    ELSE IF parts[1] = "type" /\ Len(parts) > 1 /\ parts[2] \in BUILTIN_COMMANDS
    THEN write_output([o EXCEPT !.event = "type"], r, <<parts[2], " is a shell builtin">>)
    ELSE IF parts[1] = "type" THEN type_builtin([o EXCEPT !.event = "type"], parts)
    ELSE IF parts[1] = "pwd"
    THEN write_output([o EXCEPT !.event = "pwd"], r, PathStr(cwd))
    ELSE IF parts[1] = "cd" THEN cd_builtin([o EXCEPT !.event = "cd"], parts)
    ELSE execute_quoted_executable([o EXCEPT !.event = "external"], parts, r, pr)

dispatch(o, parts, r, pr) ==
    IF is_exit(parts)
    THEN [o EXCEPT !.status = "exited", !.exit_code = 0, !.event = "exit"]
    ELSE IF parts[1] = "echo"
    THEN write_output([o EXCEPT !.event = "echo"], r, Join(Tail(parts)))
    ELSE IF parts[1] = "type" THEN type_builtin([o EXCEPT !.event = "type"], parts)
    ELSE IF parts[1] = "pwd"
    THEN write_output([o EXCEPT !.event = "pwd"], r, PathStr(cwd))
    ELSE IF parts[1] = "cd" THEN cd_builtin([o EXCEPT !.event = "cd"], parts)
    ELSE execute_quoted_executable([o EXCEPT !.event = "external"], parts, r, pr)

main_iteration(ui, pr) ==
    LET parsed == parse_input(ui)
        r == handle_redirection(parsed.tokens) IN
    IF ui.kind = "blank" THEN Continue("blank")
    ELSE IF parsed.tokens = <<>>
    THEN [Continue("parse_error") EXCEPT !.err = parsed.stderr]
    ELSE IF r.clean_command = <<>>
    THEN [Continue("no_command") EXCEPT !.err = r.stderr]
    ELSE dispatch([Continue("dispatch") EXCEPT !.err = r.stderr], r.clean_command, r, pr)

----------------------------------------------------------------------------
\* The session: the read-execute loop.

InitialFiles == [p \in {<<"g">>} |-> <<"old", NL>>]

HomeValues == {None, Some("/d"), Some("/nope")}

StartDirs == {<<>>, <<"d">>}

Line(toks) == [kind |-> "tokens", toks |-> toks]

InitCommon ==
    /\ status = "running"
    /\ exit_code = NoExit
    /\ command_parts = <<>>
    /\ redir = NoRedirection
    /\ out = <<>>
    /\ err = <<>>
    /\ handles = {}
    /\ argv = <<>>
    /\ proc = NoProc
    /\ pwd_log = <<>>
    /\ nlines = 0
    /\ hist = <<>>

Init ==
    /\ InitCommon
    /\ cwd \in StartDirs
    /\ cwd_before = cwd
    /\ fs = InitialFiles
    /\ HOME \in HomeValues
    /\ user_input = [kind |-> "none", toks |-> <<>>]
    /\ event = "start"

\* The new state after the loop body ran on ui, the spawned process (if any)
\* behaving as pr.
Step(ui, pr) ==
    \E o \in {main_iteration(ui, pr)}, parsed \in {parse_input(ui).tokens} :
    \E r \in {IF ui.kind = "tokens" /\ parsed # <<>>
              THEN handle_redirection(parsed) ELSE redir} :
        /\ user_input' = ui
        /\ status' = o.status
        /\ exit_code' = o.exit_code
        /\ cwd' = o.cwd
        /\ cwd_before' = cwd
        /\ pwd_log' = IF o.event = "cd" THEN <<>>
                      ELSE IF o.event = "pwd" /\ o.out # <<>> THEN Append(pwd_log, o.out)
                      ELSE pwd_log
        /\ fs' = o.fs
        /\ out' = <<"$ ">> \o o.out
        /\ err' = o.err
        \* a handle the code did not close is closed when the file object is
        \* collected, which the language does not place before the next prompt
        /\ handles' \in {o.handles, {}}
        /\ argv' = o.argv
        /\ proc' = o.proc
        /\ event' = o.event
        /\ redir' = r
        /\ command_parts' = IF ui.kind = "tokens" /\ parsed # <<>> THEN r.clean_command
                            ELSE IF ui.kind = "blank" THEN command_parts ELSE parsed
        /\ nlines' = nlines + 1
        /\ UNCHANGED HOME

\* The lines of the session, as shlex.split tokenizes them.
EchoLines ==
    {<<"echo", "hi">>, <<"echo", "a", "b">>, <<"echo">>,
     <<"echo", "hi", ">", "f">>, <<"echo", "hi", ">>", "f">>,
     <<"echo", "a", "b", "1>", "f">>, <<"echo", "hi", ">", "/nodir/x">>,
     <<"echo", "hi", ">", "/k/x">>, <<"echo", "hi", ">", "/d">>,
     <<"echo", "hi", ">", "">>, <<"echo", "hi", "2>", "g">>,
     <<"echo", "hi", ">">>, <<"echo", "hi", ">", "f", "2>>">>,
     <<"echo", "hi", ">", "g", "1>>", "f">>, <<">", "f", "echo", "hi">>,
     <<"echo", "a", ">", ">", "f">>, <<"echo", ">out">>}

TypeLines ==
    {<<"type">>, <<"type", "cd">>, <<"type", "ls">>, <<"type", "nocmd">>,
     <<"type", "./tool">>, <<"type", "tool">>,
     <<"type", "cd", ">", "f">>, <<"type", "nocmd", "2>", "g">>}

PwdLines ==
    {<<"pwd">>, <<"pwd", ">", "f">>, <<"pwd", ">>", "f">>, <<"pwd", ">", "/nodir/x">>}

CdLines ==
    {<<"cd">>, <<"cd", "/d">>, <<"cd", "/nope">>, <<"cd", "/k">>, <<"cd", "g">>,
     <<"cd", "~">>, <<"cd", "..">>, <<"cd", "d">>, <<"cd", "/nope", "2>", "g">>,
     <<"cd", "/d", ">", "f">>}

ExitLines ==
    {<<"exit", "0">>, <<"exit">>, <<"exit", "1">>, <<"exit", "0", "0">>,
     <<"exit", "0", ">", "f">>, <<"exit", ">", "0">>, <<"exit", "0", "2>">>}

ExternalLines ==
    {<<"ls">>, <<"ls", ">", "f">>, <<"ls", ">>", "f">>, <<"ls", "2>", "g">>,
     <<"ls", "1>", "f", "2>>", "g">>, <<"ls", ">", "/nodir/x">>,
     <<"ls", ">", "/k/x">>, <<"ls", ">", "/d">>, <<"ls", ">", "">>,
     <<"ls", "2>", "">>, <<"ls", "2>", "/nodir/x">>,
     <<"ls", ">", "f", "2>", "/nodir/x">>, <<"ls", ">">>,
     <<"/bin/ls", "hi">>, <<"/bin/ls", "hi", ">", "f">>,
     <<"nocmd">>, <<"nocmd", ">", "f">>, <<"nocmd", ">", "g", "2>>", "f">>,
     <<"ls", "2>", "g", "2>>", "f">>,
     <<"tool", "a", "b">>, <<"./tool", "a", "b">>}

OtherLines == {<<"2>", "g">>, <<"2>>">>}

Inputs ==
    {Line(l) : l \in EchoLines \cup TypeLines \cup PwdLines \cup CdLines
                      \cup ExitLines \cup ExternalLines \cup OtherLines}
        \cup {[kind |-> "blank", toks |-> <<>>], [kind |-> "badquote", toks |-> <<>>]}

\* The process outcomes that matter for ui: all of them when the line gets
\* as far as subprocess.run, none otherwise.
ProcChoices(ui) ==
    IF main_iteration(ui, NoProc).argv # <<>> THEN ProcResults ELSE {NoProc}

ReadLine ==
    /\ status = "running"
    /\ nlines < MaxLines
    /\ \E ui \in Inputs : \E pr \in ProcChoices(ui) : Step(ui, pr)
    /\ UNCHANGED hist

\* input() raises EOFError: sys.exit(0).
ReadEOF ==
    /\ status = "running"
    /\ nlines < MaxLines
    /\ user_input' = [kind |-> "eof", toks |-> <<>>]
    /\ status' = "exited"
    /\ exit_code' = 0
    /\ out' = <<"$ ">>
    /\ err' = <<>>
    /\ event' = "eof"
    /\ handles' = {}
    /\ argv' = <<>>
    /\ proc' = NoProc
    /\ cwd_before' = cwd
    /\ nlines' = nlines + 1
    /\ UNCHANGED <<cwd, fs, HOME, command_parts, redir, pwd_log, hist>>

\* input() raises KeyboardInterrupt: a newline, then the next prompt.
ReadInterrupt ==
    /\ status = "running"
    /\ nlines < MaxLines
    /\ user_input' = [kind |-> "interrupt", toks |-> <<>>]
    /\ out' = <<"$ ", NL>>
    /\ err' = <<>>
    /\ event' = "interrupt"
    /\ handles' = {}
    /\ argv' = <<>>
    /\ proc' = NoProc
    /\ cwd_before' = cwd
    /\ nlines' = nlines + 1
    /\ UNCHANGED <<status, exit_code, cwd, fs, HOME, command_parts, redir, pwd_log, hist>>

Next == ReadLine \/ ReadEOF \/ ReadInterrupt

Spec == Init /\ [][Next]_vars

----------------------------------------------------------------------------
\* handle_redirection on its own: every token sequence up to MaxTokens.

TokenAlphabet ==
    {"echo", "hi", "out.txt", ">out", ">", "1>", ">>", "1>>", "2>", "2>>"}

TokenSeqs == UNION {[1..n -> TokenAlphabet] : n \in 1..MaxTokens}

InitRedir ==
    /\ InitCommon
    /\ cwd = <<>>
    /\ cwd_before = <<>>
    /\ fs = InitialFiles
    /\ HOME = None
    /\ user_input \in {Line(t) : t \in TokenSeqs}
    /\ event = "input"

Extract ==
    /\ event = "input"
    /\ \E r \in {handle_redirection(user_input.toks)} :
        /\ redir' = r
        /\ command_parts' = r.clean_command
        /\ err' = r.stderr
    /\ event' = "extracted"
    /\ UNCHANGED <<status, exit_code, cwd, fs, HOME, user_input, out, handles, argv,
                   proc, cwd_before, pwd_log, nlines, hist>>

NextRedir == Extract

SpecRedir == InitRedir /\ [][NextRedir]_vars

----------------------------------------------------------------------------
\* Echo lines redirected to a file, with the lines read so far kept in hist.

EchoArgs == {<<>>, <<"hi">>, <<"a", "b">>}
EchoOps == {">", ">>", "1>>"}
EchoFiles == {"f", "g"}

EchoRedirLines ==
    {<<"echo">> \o a \o <<op, f>> : a \in EchoArgs, op \in EchoOps, f \in EchoFiles}

InitEcho ==
    /\ InitCommon
    /\ cwd \in StartDirs
    /\ cwd_before = cwd
    /\ fs = InitialFiles
    /\ HOME = None
    /\ user_input = [kind |-> "none", toks |-> <<>>]
    /\ event = "start"

EchoToFile ==
    /\ status = "running"
    /\ Len(hist) < MaxEcho
    /\ \E l \in EchoRedirLines :
        /\ Step(Line(l), NoProc)
        /\ hist' = Append(hist, l)

NextEcho == EchoToFile

SpecEcho == InitEcho /\ [][NextEcho]_vars

----------------------------------------------------------------------------
\* The tokenizer at the level of characters: shlex.split(user_input,
\* posix=True), i.e. shlex with whitespace_split set and no commenters.  A
\* line is a sequence of characters, a token a sequence of characters.

MaxChars == 5

dq == "\""
sq == "'"
bs == "\\"
whitespace == {" "}
quotes == {sq, dq}
escape == {bs}
escapedquotes == {dq}

Chars == {"a", " ", dq, sq, bs, "$"}

\* The state of the lexer inside read_token.
Lexer(st, es, tok, q) == [state |-> st, escapedstate |-> es, token |-> tok, quoted |-> q]

\* Variant: the closing quote stays in the token (the non-POSIX behaviour).
in_quotes_keeps_delimiter(lx, c) ==
    IF c = lx.state THEN Lexer("a", lx.escapedstate, Append(lx.token, c), TRUE)
    ELSE IF c \in escape /\ lx.state \in escapedquotes
    THEN Lexer(c, lx.state, lx.token, TRUE)
    ELSE Lexer(lx.state, lx.escapedstate, Append(lx.token, c), TRUE)

\* read_token in a quote state: the closing quote ends the quoted part, a
\* backslash inside double quotes starts an escape, anything else is kept.
in_quotes(lx, c) ==
    IF c = lx.state THEN Lexer("a", lx.escapedstate, lx.token, TRUE)
    ELSE IF c \in escape /\ lx.state \in escapedquotes
    THEN Lexer(c, lx.state, lx.token, TRUE)
    ELSE Lexer(lx.state, lx.escapedstate, Append(lx.token, c), TRUE)

\* read_token in the escape state: inside quotes the backslash is kept
\* unless the character is the backslash or the enclosing quote.
in_escape(lx, c) ==
    LET kept == IF lx.escapedstate \in quotes /\ c # lx.state /\ c # lx.escapedstate
                THEN Append(lx.token, lx.state) ELSE lx.token
    IN Lexer(lx.escapedstate, lx.escapedstate, Append(kept, c), lx.quoted)

\* What read_token returns: an unquoted empty token is the end of input.
TokenResult(lx, next) ==
    [tok |-> IF ~lx.quoted /\ lx.token = <<>> THEN None ELSE Some(lx.token),
     next |-> next, error |-> ""]

TokenError(msg) == [tok |-> None, next |-> 0, error |-> msg]

\* read_token from character i of s on.
RECURSIVE read_token(_, _, _)
read_token(s, i, lx) ==
    IF i > Len(s)
    THEN IF lx.state \in quotes THEN TokenError("No closing quotation")
         ELSE IF lx.state \in escape THEN TokenError("No escaped character")
         ELSE TokenResult(lx, i)
    ELSE
    LET c == s[i] IN
    IF lx.state = " "
    THEN IF c \in whitespace
         THEN IF lx.token # <<>> \/ lx.quoted
              THEN TokenResult(lx, i + 1)
              ELSE read_token(s, i + 1, lx)
         ELSE IF c \in escape
         THEN read_token(s, i + 1, Lexer(c, "a", lx.token, lx.quoted))
         ELSE IF c \in quotes
         THEN read_token(s, i + 1, Lexer(c, lx.escapedstate, lx.token, lx.quoted))
         ELSE read_token(s, i + 1, Lexer("a", lx.escapedstate, <<c>>, lx.quoted))
    ELSE IF lx.state \in quotes
    THEN read_token(s, i + 1, in_quotes(lx, c))
    ELSE IF lx.state \in escape
    THEN read_token(s, i + 1, in_escape(lx, c))
    ELSE \* state "a", inside a word
         IF c \in whitespace
         THEN IF lx.token # <<>> \/ lx.quoted
              THEN TokenResult(lx, i + 1)
              ELSE read_token(s, i + 1, Lexer(" ", lx.escapedstate, lx.token, lx.quoted))
         ELSE IF c \in quotes
         THEN read_token(s, i + 1, Lexer(c, lx.escapedstate, lx.token, lx.quoted))
         ELSE IF c \in escape
         THEN read_token(s, i + 1, Lexer(c, "a", lx.token, lx.quoted))
         ELSE read_token(s, i + 1, Lexer(lx.state, lx.escapedstate, Append(lx.token, c), lx.quoted))

\* list(lex): tokens are read until the end of input or an error.
RECURSIVE split_from(_, _, _)
split_from(s, i, acc) ==
    LET r == read_token(s, i, Lexer(" ", "", <<>>, FALSE)) IN
    IF r.error # "" THEN [tokens |-> <<>>, error |-> r.error]
    ELSE IF r.tok = None THEN [tokens |-> acc, error |-> ""]
    ELSE split_from(s, r.next, Append(acc, r.tok[1]))

split(s) == split_from(s, 1, <<>>)

\* parse_input on a line of characters: the tokens, or the parsing error on
\* standard error and no token.
parse_line(s) ==
    LET r == split(s) IN
    IF r.error # ""
    THEN [tokens |-> <<>>, stderr |-> <<"Parsing error: ", r.error, NL>>]
    ELSE [tokens |-> r.tokens, stderr |-> <<>>]

RECURSIVE CharSeqs(_)
CharSeqs(n) ==
    IF n = 0 THEN {<<>>}
    ELSE LET shorter == CharSeqs(n - 1) IN
         shorter \cup {Append(l, c) : l \in {x \in shorter : Len(x) = n - 1}, c \in Chars}

\* echo "a  b" c
ExampleLine ==
    <<"e", "c", "h", "o", " ", dq, "a", " ", " ", "b", dq, " ", "c">>

TokLines == CharSeqs(MaxChars) \cup {ExampleLine}

\* Specification of the tokenizer alone: any line, then parse_input on it.
InitTok ==
    /\ InitCommon
    /\ cwd = <<>>
    /\ cwd_before = cwd
    /\ fs = InitialFiles
    /\ HOME = None
    /\ user_input \in {[kind |-> "chars", text |-> l] : l \in TokLines}
    /\ event = "start"

Tokenize ==
    /\ event = "start"
    /\ \E parsed \in {parse_line(user_input.text)} :
        /\ command_parts' = parsed.tokens
        /\ err' = err \o parsed.stderr
        /\ event' = IF parsed.stderr = <<>> THEN "tokens" ELSE "parse_error"
    /\ UNCHANGED <<status, exit_code, cwd, fs, HOME, user_input, redir, out,
                   handles, argv, proc, cwd_before, pwd_log, nlines, hist>>

NextTok == Tokenize

SpecTok == InitTok /\ [][NextTok]_vars

----------------------------------------------------------------------------
\* Properties of the session.

Prompt == <<"$ ">>

IsTokens == user_input.kind = "tokens"

\* C1: every line ends with the loop back at the prompt; the session ends only
\* on the line exit 0 or at the end of input, never because of an error.
C1_EveryLineReturnsToPrompt ==
    \/ status = "running"
    \/ /\ status = "exited"
       /\ exit_code = 0
       /\ \/ user_input.kind = "eof"
          \/ IsTokens /\ command_parts = <<"exit", "0">>

\* C2: a line ends the session through exit if and only if its clean tokens
\* are exactly exit 0, and then with status 0; every other exit form keeps the
\* session running and goes to the external-command branch.
C2_ExitOnlyOnExitZero ==
    IsTokens =>
        /\ (status = "exited") <=> (command_parts = <<"exit", "0">>)
        /\ status = "exited" => exit_code = 0
        /\ (command_parts # <<>> /\ command_parts[1] = "exit"
                /\ command_parts # <<"exit", "0">>)
            => (event = "external" /\ status = "running")

C2_Witness ==
    /\ status = "exited"
    /\ exit_code = 0
    /\ user_input.toks = <<"exit", "0", ">", "f">>
    /\ nlines = 2
    /\ cwd = <<"d">>
    /\ cwd_before = <<"d">>

\* The directory a cd line names, ~ standing for the home directory.
CdTarget == IF command_parts[2] = "~" THEN home_path ELSE command_parts[2]

\* Why the directory p cannot be entered, from the state of the file system.
CdFailureReason(p) ==
    IF \E k \in 1..Len(p) : SubSeq(p, 1, k) \in LockedDirs THEN ": Permission denied"
    ELSE IF \E k \in 1..Len(p) : SubSeq(p, 1, k) \in DOMAIN fs THEN ": Not a directory"
    ELSE ": No such file or directory"

\* The last line was cd with an argument naming a directory that cannot be entered.
CdFailed ==
    /\ IsTokens
    /\ event = "cd"
    /\ Len(command_parts) > 1
    /\ abspath(cwd_before, CdTarget) \notin (Dirs \ LockedDirs)

\* C3 as stated: after a failed cd <path> the directory is unchanged, the one
\* diagnostic is cd: <path>: <reason> with the path as typed, and the session
\* continues.
C3_DiagnosticNamesTypedPath ==
    CdFailed =>
        /\ cwd = cwd_before
        /\ status = "running"
        /\ err = redir.stderr \o <<"cd: ", command_parts[2],
                                   CdFailureReason(abspath(cwd_before, CdTarget)), NL>>

\* C3 (amended): after a failed cd <path> the directory is unchanged, the one
\* diagnostic is cd: <p>: <reason>, p being the path as typed or the value of
\* HOME when the path typed is ~, the session continues, and a pwd that follows
\* prints the directory of before the failed cd.
C3_FailedCdState ==
    CdFailed =>
        /\ cwd = cwd_before
        /\ status = "running"
        /\ err = redir.stderr \o <<"cd: ", CdTarget,
                                   CdFailureReason(abspath(cwd_before, CdTarget)), NL>>

C3_PwdAfterFailedCd ==
    (CdFailed /\ user_input'.kind = "tokens" /\ user_input'.toks = <<"pwd">>)
        => out' = Prompt \o PathStr(cwd_before) \o <<NL>>

C3_FailedCdLeavesDirectory == [](C3_FailedCdState) /\ [][C3_PwdAfterFailedCd]_vars

C3_Witness ==
    /\ CdFailed
    /\ command_parts[2] = "~"
    /\ cwd = <<"d">>
    /\ err = <<"cd: ", "/nope", ": No such file or directory", NL>>

\* C4: only a cd line changes the working directory, and the pwd outputs
\* printed with no cd line between them are all the same.
C4_OnlyCdChangesDirectory ==
    /\ (IsTokens /\ event # "cd") => cwd = cwd_before
    /\ ~IsTokens => cwd = cwd_before
    /\ \A i, j \in 1..Len(pwd_log) : pwd_log[i] = pwd_log[j]

C4_Witness ==
    /\ Len(pwd_log) = 2
    /\ pwd_log[1] = <<"/", "d", NL>>
    /\ pwd_log[2] = <<"/", "d", NL>>
    /\ event = "pwd"

----------------------------------------------------------------------------
\* Properties of handle_redirection, over the tokens of the last line.

Toks == user_input.toks

\* handle_redirection has run on the tokens of user_input.
Extracted == IsTokens /\ event # "input"

\* The subsequence of toks at the positions of keep that are i or more.
RECURSIVE Subsequence(_, _, _)
Subsequence(toks, i, keep) ==
    IF i > Len(toks) THEN <<>>
    ELSE (IF i \in keep THEN <<toks[i]>> ELSE <<>>) \o Subsequence(toks, i + 1, keep)

\* Position i holds a token spelled like a directive.
DirectiveShaped(toks, i) == toks[i] \in Directives

\* Position i acts as a directive: it is spelled like one and is not the file
\* name of a directive before it.
RECURSIVE ActsAsDirective(_, _)
ActsAsDirective(toks, i) ==
    /\ toks[i] \in Directives
    /\ i = 1 \/ ~ActsAsDirective(toks, i - 1)

\* C5 as stated: the clean tokens are the tokens, in order, without every
\* token spelled like a directive and without the token after each of them.
C5_DropsEveryDirectiveShapedToken ==
    Extracted =>
        LET keep == {i \in 1..Len(Toks) :
                        ~DirectiveShaped(Toks, i)
                            /\ (i = 1 \/ ~DirectiveShaped(Toks, i - 1))} IN
        redir.clean_command = Subsequence(Toks, 1, keep)

\* C5 (amended): the clean tokens are the tokens, in order, without every
\* directive and without the token after each directive, its file name; a
\* token spelled like a directive that is taken as a file name is dropped as a
\* file name and is no directive itself, so the token after it stays.  Tokens
\* that only contain a directive (>out) stay.
C5_CleanTokens ==
    Extracted =>
        LET keep == {i \in 1..Len(Toks) :
                        ~ActsAsDirective(Toks, i)
                            /\ (i = 1 \/ ~ActsAsDirective(Toks, i - 1))} IN
        /\ redir.clean_command = Subsequence(Toks, 1, keep)
        /\ Toks = <<"echo", "hi", ">", "out.txt">> =>
            /\ redir.clean_command = <<"echo", "hi">>
            /\ redir.output_file = Some("out.txt")
            /\ redir.append_output = FALSE

C5_Witness ==
    /\ Extracted
    /\ Toks = <<"echo", ">", ">", "out.txt">>
    /\ redir.clean_command = <<"echo", "out.txt">>
    /\ redir.output_file = Some(">")

\* The positions of the directives of the given spellings that have a file name.
DirectivesWithFile(toks, spellings) ==
    {i \in 1..(Len(toks) - 1) : ActsAsDirective(toks, i) /\ toks[i] \in spellings}

Last(S) == CHOOSE m \in S : \A n \in S : n <= m

\* C6: the target and append flag of a stream are those of the last directive
\* of that stream that has a file name, whatever the directives of the other
\* stream are; a stream without such a directive has no target.
C6_LastDirectiveWins ==
    Extracted =>
        LET outs == DirectivesWithFile(Toks, OutOverwrite \cup OutAppend)
            errs == DirectivesWithFile(Toks, ErrOverwrite \cup ErrAppend) IN
        /\ IF outs = {} THEN redir.output_file = None /\ redir.append_output = FALSE
           ELSE /\ redir.output_file = Some(Toks[Last(outs) + 1])
                /\ redir.append_output = (Toks[Last(outs)] \in OutAppend)
        /\ IF errs = {} THEN redir.error_file = None /\ redir.append_error = FALSE
           ELSE /\ redir.error_file = Some(Toks[Last(errs) + 1])
                /\ redir.append_error = (Toks[Last(errs)] \in ErrAppend)

C6_Witness ==
    /\ Extracted
    /\ Toks = <<">>", "out.txt", "1>", "hi">>
    /\ redir.output_file = Some("hi")
    /\ redir.append_output = FALSE
    /\ redir.error_file = None

\* The branch of main a clean command goes to.
BranchOf(parts) ==
    IF parts = <<>> THEN "no_command"
    ELSE IF parts = <<"exit", "0">> THEN "exit"
    ELSE IF parts[1] \in {"echo", "type", "pwd", "cd"} THEN parts[1]
    ELSE "external"

\* C7: a directive that ends the line reports the syntax error of its stream,
\* is not among the clean tokens, leaves the targets and flags as the tokens
\* before it set them, and the line goes on with the clean tokens.
C7_TrailingDirective ==
    (Extracted /\ ActsAsDirective(Toks, Len(Toks))) =>
        LET before == handle_redirection(SubSeq(Toks, 1, Len(Toks) - 1))
            message == IF Toks[Len(Toks)] \in OutOverwrite \cup OutAppend
                       THEN SyntaxErrorOutput ELSE SyntaxErrorError IN
        /\ redir.stderr = message
        /\ SubSeq(err, 1, Len(message)) = message
        /\ redir.clean_command = before.clean_command
        /\ redir.output_file = before.output_file
        /\ redir.append_output = before.append_output
        /\ redir.error_file = before.error_file
        /\ redir.append_error = before.append_error
        /\ command_parts = redir.clean_command
        /\ event # "extracted" => event = BranchOf(redir.clean_command)

C7_Witness ==
    /\ Extracted
    /\ Toks = <<"echo", "hi", ">", "f", "2>>">>
    /\ err = SyntaxErrorError
    /\ event = "echo"
    /\ redir.output_file = Some("f")
    /\ abspath(cwd, "f") \in DOMAIN fs
    /\ fs[abspath(cwd, "f")] = <<"hi", NL>>

----------------------------------------------------------------------------
\* Properties of redirected output.

\* The content of the file at path p, None when there is no such file.
FileContent(files, p) == IF p \in DOMAIN files THEN Some(files[p]) ELSE None

\* The words with one space between neighbours.
SpaceJoined(words) ==
    [i \in 1..(IF words = <<>> THEN 0 ELSE 2 * Len(words) - 1) |->
        IF i % 2 = 1 THEN words[(i + 1) \div 2] ELSE " "]

\* The parts of an echo line of hist: echo <words> <op> <file>.
EchoWords(l) == SubSeq(l, 2, Len(l) - 2)
EchoOp(l) == l[Len(l) - 1]
EchoFile(l) == l[Len(l)]

\* What the file called name holds after the echo lines h, having held initial.
RECURSIVE ContentAfter(_, _, _)
ContentAfter(h, name, initial) ==
    IF h = <<>> THEN initial
    ELSE LET l == h[Len(h)]
             earlier == ContentAfter(SubSeq(h, 1, Len(h) - 1), name, initial)
             text == SpaceJoined(EchoWords(l)) \o <<NL>> IN
         IF EchoFile(l) # name THEN earlier
         ELSE IF EchoOp(l) \in OutOverwrite THEN Some(text)
         ELSE Some((IF earlier = None THEN <<>> ELSE earlier[1]) \o text)

TwoLines(l) == <<l, l>>

\* C8: after echo lines redirected to a file, the file holds the line of the
\* last overwriting echo and the lines of the appending echoes after it (after
\* what it held before, when no echo overwrote it), each line the words joined
\* by single spaces and a newline; none of it reaches standard output.
C8_EchoRedirection ==
    /\ \A name \in EchoFiles :
        FileContent(fs, abspath(cwd, name))
            = ContentAfter(hist, name, FileContent(InitialFiles, abspath(cwd, name)))
    /\ hist # <<>> => (out = Prompt /\ status = "running")
    /\ hist = TwoLines(<<"echo", "hi", ">>", "f">>)
        => fs[abspath(cwd, "f")] = <<"hi", NL, "hi", NL>>
    /\ hist = TwoLines(<<"echo", "hi", ">", "f">>)
        => fs[abspath(cwd, "f")] = <<"hi", NL>>

C8_Witness ==
    /\ hist = <<<<"echo", "a", "b", ">", "g">>, <<"echo", "hi", ">>", "g">>>>
    /\ cwd = <<>>
    /\ fs[<<"g">>] = <<"a", " ", "b", NL, "hi", NL>>
    /\ out = Prompt

\* An external command was launched and ran to completion.
ProgramRan == IsTokens /\ event = "external" /\ argv # <<>> /\ proc.kind = OK

\* The first line of the session sent text to the file target, which it
\* opened in append or overwrite mode.
Delivered(target, append, text) ==
    LET p == abspath(cwd_before, target[1]) IN
    /\ p \in DOMAIN fs
    /\ fs[p] = (IF append /\ p \in DOMAIN InitialFiles THEN InitialFiles[p] ELSE <<>>)
                    \o text

\* C9: each stream of an external command goes to exactly one place: to the
\* file of the redirection spec when the spec holds a target for it, with
\* nothing on the session's stream, and to the session's stream otherwise
\* (stated for the first line of a session, the files being the initial ones).
C9_EachStreamToOnePlace ==
    (ProgramRan /\ nlines = 1) =>
        /\ IF redir.output_file # None
           THEN /\ out = Prompt
                /\ Delivered(redir.output_file, redir.append_output, proc.stdout)
           ELSE out = Prompt \o proc.stdout
        /\ IF redir.error_file # None
           THEN /\ err = redir.stderr
                /\ Delivered(redir.error_file, redir.append_error, proc.stderr)
           ELSE err = redir.stderr \o proc.stderr

\* The last line ended its standard error with <name>: command not found.
ReportsNotFound ==
    /\ Len(err) >= 3
    /\ SubSeq(err, Len(err) - 1, Len(err)) = <<": command not found", NL>>

\* C10: the external branch reports command not found for a missing
\* executable, permission denied for a launch without permission and the
\* generic message for any other failure; command not found is reported for
\* nothing but a missing executable, and the session goes on.
C10_DiagnosticMatchesFailure ==
    (IsTokens /\ event = "external") =>
        /\ status = "running"
        /\ proc.kind = "FileNotFoundError"
            => err = redir.stderr \o <<argv[1], ": command not found", NL>>
        /\ proc.kind = "PermissionError"
            => err = redir.stderr \o <<argv[1], ": permission denied", NL>>
        /\ proc.kind = "OSError"
            => err = redir.stderr \o <<"Error running command: ", "OSError", NL>>
        /\ ReportsNotFound =>
            \/ proc.kind = "FileNotFoundError"
            \/ /\ argv = <<>>
               /\ find_executable(command_parts[1]) = None
               /\ ~is_executable_file(command_parts[1])

----------------------------------------------------------------------------
\* Properties of command resolution.

\* The last line went to the external branch.
ExternalLine == IsTokens /\ event = "external"

\* The line names no redirection file.
NoTargets == redir.output_file = None /\ redir.error_file = None

\* C11: a command that is no built-in is resolved in a fixed order: a literal
\* first token that is an executable regular file is the file launched, the
\* search path not being consulted; otherwise the first match of the search
\* path is launched and replaces the first element of the argument vector;
\* otherwise command not found is reported and no process is spawned.  The
\* other arguments are passed as they are.
C11_ResolutionOrder ==
    ExternalLine =>
        LET name == command_parts[1]
            literal == name # "" /\ abspath(cwd_before, name) \in ExecFiles
            match == IF HasSlash(name) \/ name = "" THEN None ELSE SearchFrom(name, 1) IN
        /\ literal =>
            /\ NoTargets => argv # <<>>
            /\ argv # <<>> =>
                /\ argv = command_parts
                /\ proc.file = Some(abspath(cwd_before, name))
        /\ (~literal /\ match # None) =>
            /\ NoTargets => argv # <<>>
            /\ argv # <<>> =>
                /\ argv = <<SearchPathStr(match[1])>> \o Tail(command_parts)
                /\ proc.file = match
        /\ (~literal /\ match = None) =>
            /\ argv = <<>>
            /\ proc = NoProc
            /\ err = redir.stderr \o <<name, ": command not found", NL>>

----------------------------------------------------------------------------
\* Lines that execute nothing.

ParseErrorMessage == <<"Parsing error: ", "No closing quotation", NL>>

\* The line read in this step is blank, has an unterminated quote, or has no
\* clean tokens.
ReadsEmptyLine ==
    \/ user_input'.kind \in {"blank", "badquote"}
    \/ user_input'.kind = "tokens" /\ redir'.clean_command = <<>>

\* C12: a blank line, a line with an unterminated quote and a line without
\* clean tokens execute nothing: no built-in, no process, no file created or
\* modified, the working directory unchanged, the session going on; the
\* unterminated quote reports a parse error, the blank line reports nothing.
C12_StepOfEmptyLine ==
    ReadsEmptyLine =>
        /\ event' \in {"blank", "parse_error", "no_command"}
        /\ status' = "running"
        /\ fs' = fs
        /\ cwd' = cwd
        /\ argv' = <<>>
        /\ proc' = NoProc
        /\ handles' = {}
        /\ out' = Prompt
        /\ user_input'.kind = "blank" => err' = <<>>
        /\ user_input'.kind = "badquote" => err' = ParseErrorMessage
        /\ user_input'.kind = "tokens" => err' = redir'.stderr

C12_EmptyLinesExecuteNothing == [][C12_StepOfEmptyLine]_vars

C12_Witness ==
    /\ event = "no_command"
    /\ Toks = <<"2>", "g">>
    /\ cwd = <<>>
    /\ fs = InitialFiles
    /\ status = "running"
    /\ nlines = 2

----------------------------------------------------------------------------
\* Properties of cd without argument and of type.

\* C13: cd without argument enters the directory HOME names, the root
\* directory when HOME is unset, and for every value of HOME the line ends
\* without a diagnostic and with the session running.
C13_CdHomeNeverFails ==
    (IsTokens /\ event = "cd" /\ command_parts = <<"cd">>) =>
        /\ status = "running"
        /\ err = redir.stderr
        /\ cwd = abspath(cwd_before, IF HOME = None THEN "/" ELSE HOME[1])

\* What the resolution of C11 gives for a name: the literal path of an
\* executable file, else the first match of the search path, else nothing.
ExternalResolution(dir, name) ==
    IF name # "" /\ abspath(dir, name) \in ExecFiles THEN Some(name)
    ELSE IF ~HasSlash(name) /\ name # "" /\ SearchFrom(name, 1) # None
    THEN Some(SearchPathStr(SearchFrom(name, 1)[1]))
    ELSE None

\* C14: type N reports exactly one of: N is a shell builtin, for the five
\* built-in names, tested first; else the path external resolution finds for
\* N; else N: not found on standard error.  It executes nothing and leaves
\* the working directory alone.
C14_TypeReportsResolution ==
    (IsTokens /\ event = "type" /\ Len(command_parts) >= 2) =>
        LET N == command_parts[2]
            found == ExternalResolution(cwd_before, N) IN
        /\ cwd = cwd_before
        /\ argv = <<>>
        /\ proc = NoProc
        /\ status = "running"
        /\ IF N \in {"exit", "echo", "type", "pwd", "cd"}
           THEN out = Prompt \o <<N, " is a shell builtin", NL>> /\ err = redir.stderr
           ELSE IF found # None
           THEN out = Prompt \o <<N, " is ", found[1], NL>> /\ err = redir.stderr
           ELSE out = Prompt /\ err = redir.stderr \o <<N, ": not found", NL>>

----------------------------------------------------------------------------
\* Properties of the tokenizer (specification SpecTok).

TokLine == user_input.text

\* The part of a line each character belongs to, read off the quoting rules:
\* "sep" for whitespace outside quotes and not escaped, "delim" for a quote
\* character that opens or closes a quoted part, "char" for the rest.  The
\* last element is the mode the line ends in ("out" when quoting is balanced).
RECURSIVE Marks(_, _, _, _)
Marks(s, i, mode, acc) ==
    IF i > Len(s) THEN Append(acc, mode)
    ELSE LET c == s[i] IN
    IF mode = "out"
    THEN IF c = " " THEN Marks(s, i + 1, "out", Append(acc, "sep"))
         ELSE IF c = bs
         THEN IF i = Len(s) THEN Append(Append(acc, "char"), "dangling")
              ELSE Marks(s, i + 2, "out", acc \o <<"char", "char">>)
         ELSE IF c = sq THEN Marks(s, i + 1, "sq", Append(acc, "delim"))
         ELSE IF c = dq THEN Marks(s, i + 1, "dq", Append(acc, "delim"))
         ELSE Marks(s, i + 1, "out", Append(acc, "char"))
    ELSE IF mode = "sq"
    THEN IF c = sq THEN Marks(s, i + 1, "out", Append(acc, "delim"))
         ELSE Marks(s, i + 1, "sq", Append(acc, "char"))
    ELSE IF c = dq THEN Marks(s, i + 1, "out", Append(acc, "delim"))
         ELSE IF c = bs /\ i < Len(s)
         THEN Marks(s, i + 2, "dq", acc \o <<"char", "char">>)
         ELSE Marks(s, i + 1, "dq", Append(acc, "char"))

BalancedQuoting(s) == Marks(s, 1, "out", <<>>)[Len(s) + 1] = "out"

\* The words of a line: the maximal runs of characters that are not
\* separators, each without its delimiting quotes.
RECURSIVE WordsFrom(_, _, _, _, _, _)
WordsFrom(s, m, i, cur, inword, acc) ==
    IF i > Len(s) THEN IF inword THEN Append(acc, cur) ELSE acc
    ELSE IF m[i] = "sep"
    THEN WordsFrom(s, m, i + 1, <<>>, FALSE, IF inword THEN Append(acc, cur) ELSE acc)
    ELSE WordsFrom(s, m, i + 1, IF m[i] = "char" THEN Append(cur, s[i]) ELSE cur, TRUE, acc)

Words(s) == WordsFrom(s, Marks(s, 1, "out", <<>>), 1, <<>>, FALSE, <<>>)

\* A sequence of characters without its backslashes.
NoBackslash(w) == SelectSeq(w, LAMBDA c : c # bs)

\* C15: a line with balanced quoting is split at the runs of whitespace that
\* are neither quoted nor escaped and nowhere else, quoted whitespace stays
\* in its token and the delimiting quotes are removed (backslashes aside,
\* which C16 is about); echo "a  b" c gives echo, a  b, c.
C15_SplitsAtUnquotedWhitespace ==
    (event \in {"tokens", "parse_error"} /\ BalancedQuoting(TokLine)) =>
        /\ event = "tokens"
        /\ Len(command_parts) = Len(Words(TokLine))
        /\ \A k \in 1..Len(command_parts) :
              NoBackslash(command_parts[k]) = NoBackslash(Words(TokLine)[k])
        /\ TokLine = ExampleLine =>
              command_parts = <<<<"e", "c", "h", "o">>, <<"a", " ", " ", "b">>, <<"c">>>>

C15_Witness ==
    /\ event = "tokens"
    /\ TokLine = <<dq, "a", " ", dq, "a">>
    /\ command_parts = <<<<"a", " ", "a">>>>

\* C16: inside double quotes a backslash is removed, and the next character
\* kept, exactly when that character is a double quote, a backslash or a
\* dollar sign; before any other character the backslash stays in the token.
C16_DoubleQuoteEscapes ==
    \A k \in 2..(Len(TokLine) - 2) :
        ( /\ event \in {"tokens", "parse_error"}
          /\ TokLine[1] = dq /\ TokLine[Len(TokLine)] = dq
          /\ TokLine[k] = bs
          /\ \A j \in (2..(Len(TokLine) - 1)) \ {k, k + 1} : TokLine[j] \in {"a", " ", "$", sq} )
        => LET before == SubSeq(TokLine, 2, k - 1)
               after == SubSeq(TokLine, k + 2, Len(TokLine) - 1)
               c == TokLine[k + 1] IN
           /\ event = "tokens"
           /\ command_parts =
                 << before \o (IF c \in {dq, bs, "$"} THEN <<c>> ELSE <<bs, c>>) \o after >>

----------------------------------------------------------------------------
\* Redirection handles and the files a line touches.

\* C17: at every prompt no redirection handle is open: whatever a line
\* opened is closed when the line is over, on the normal path, when the
\* second file cannot be opened after the first, and when the launch fails.
C17_NoOpenHandleAtPrompt == handles = {}


\* The files a step creates, truncates or writes.
ChangedFiles ==
    {p \in DOMAIN fs \cup DOMAIN fs' : FileContent(fs', p) # FileContent(fs, p)}

\* The step reads a line of tokens that has a command.
ReadsCommand == user_input'.kind = "tokens" /\ command_parts' # <<>>

\* C18: a command name that is no built-in, no literal path of an executable
\* file and no match of the search path leaves the file system as it is, its
\* redirection targets neither created nor truncated, and command not found
\* goes to the session's standard error, an error target or not.
C18_StepOfUnresolvedCommand ==
    ( /\ ReadsCommand
      /\ command_parts'[1] \notin {"exit", "echo", "type", "pwd", "cd"}
      /\ ExternalResolution(cwd, command_parts'[1]) = None )
    => /\ fs' = fs
       /\ handles' = {}
       /\ proc' = NoProc
       /\ out' = Prompt
       /\ err' = redir'.stderr \o <<command_parts'[1], ": command not found", NL>>
       /\ status' = "running"

C18_UnresolvedTouchesNoFile == [][C18_StepOfUnresolvedCommand]_vars

C18_Witness ==
    /\ event = "external"
    /\ Toks = <<"nocmd", ">", "g", "2>>", "f">>
    /\ fs = InitialFiles
    /\ err = <<"nocmd", ": command not found", NL>>

\* The final targets of a line: for each stream, the file of its last
\* directive that has a file name.
FinalTargets(dir, toks) ==
    LET outs == DirectivesWithFile(toks, OutOverwrite \cup OutAppend)
        errs == DirectivesWithFile(toks, ErrOverwrite \cup ErrAppend) IN
    {abspath(dir, toks[Last(S) + 1]) : S \in {outs, errs} \ {{}}}

\* C19: the files a line makes the interpreter open, create, truncate or
\* write are among its final output target and its final error target, two
\* at most; the file of a directive that a later directive of the same
\* stream overrode is left as it was.
C19_StepTouchesFinalTargetsOnly ==
    LET targets == IF user_input'.kind = "tokens"
                   THEN FinalTargets(cwd, user_input'.toks) ELSE {} IN
    /\ ChangedFiles \subseteq targets
    /\ handles' \subseteq targets
    /\ Cardinality(ChangedFiles \cup handles') <= 2

C19_OnlyFinalTargets == [][C19_StepTouchesFinalTargetsOnly]_vars

C19_Witness ==
    /\ event = "external"
    /\ Toks = <<"ls", "2>", "g", "2>>", "f">>
    /\ proc.kind = OK
    /\ cwd = <<>>
    /\ fs = (<<"g">> :> <<"old", NL>>) @@ (<<"f">> :> <<"ls: warning", NL>>)

\* C20: of the built-ins only echo and pwd use the redirection, and only the
\* output target; type and cd touch no file and report on the session's
\* streams, their diagnostics on its standard error, whatever the directives
\* of the line name; no built-in opens the error target.
C20_StepOfBuiltin ==
    (ReadsCommand /\ event' \in {"echo", "type", "pwd", "cd"}) =>
        /\ \A p \in ChangedFiles :
              /\ event' \in {"echo", "pwd"}
              /\ redir'.output_file # None
              /\ p = abspath(cwd, redir'.output_file[1])
        /\ handles' = {}
        /\ (event' \in {"echo", "pwd"} /\ redir'.output_file = None) =>
              (fs' = fs /\ out' # Prompt)
        /\ (event' = "type" /\ status' = "running") =>
              /\ out' # Prompt \/ err' # redir'.stderr
              /\ command_parts'[2] \in {"exit", "echo", "type", "pwd", "cd"} =>
                    out' = Prompt \o <<command_parts'[2], " is a shell builtin", NL>>
        /\ (event' = "cd" /\ Len(command_parts') > 1 /\ status' = "running"
                /\ abspath(cwd, IF command_parts'[2] = "~" THEN home_path
                                ELSE command_parts'[2]) \notin (Dirs \ LockedDirs)) =>
              /\ err' # redir'.stderr
              /\ SubSeq(err', 1, Len(redir'.stderr)) = redir'.stderr
              /\ out' = Prompt

C20_BuiltinsAndRedirection == [][C20_StepOfBuiltin]_vars

C20_Witness ==
    /\ event = "cd"
    /\ Toks = <<"cd", "/nope", "2>", "g">>
    /\ fs = InitialFiles
    /\ err = <<"cd: ", "/nope", ": No such file or directory", NL>>
    /\ nlines = 2

====
